---- MODULE Spec2Model ----
(***************************************************************************)
(* MyStateCache (cache_with_expiry_heap/state_cache.go): an in-memory      *)
(* cache whose entries expire, with a min-heap of expiries swept by a      *)
(* background goroutine, all behind one sync.RWMutex.                      *)
(*                                                                         *)
(* The wall clock `now` counts sub-second units, Res of them per second;   *)
(* the code only ever sees time.Now().Unix() and                           *)
(* int64(lifespan.Seconds()), both of which truncate.                      *)
(***************************************************************************)
EXTENDS Integers, Sequences, FiniteSets, TLC

\* ---------------------------------------------------------------- bounds
Res == 2          \* clock units per second
MaxNow == 2       \* the clock stops advancing here
MaxOps == 3       \* calls the callers start in one run
LiveOps == 1      \* the same, in the runs checked for liveness

Procs == {"p1", "p2"}          \* caller goroutines
Keys == {"a", "b"}             \* MyState.Id
NilState == 0                  \* a nil *MyState
\* The n-th call passes *MyState number n: every call brings its own payload.
Vals == 1..MaxOps
Lifespans == {0 - (Res + 1), 0, Res}   \* time.Duration, in clock units
NoOne == "nobody"               \* nobody holds the write lock
Sched == "sched"               \* the startCleanup goroutine

VARIABLES
    now,            \* wall clock, in clock units
    items,          \* cache.items (the map's content; empty when nil)
    itemsNil,       \* cache.items == nil
    expirations,    \* cache.expirations: the heap's backing array, of entry pointers
    expiryMap,      \* cache.expiryMap: key -> *itemExpiry (the entry objects)
    writer,         \* RWMutex: the holder of the exclusive lock
    readers,        \* RWMutex: the holders of the shared lock
    ctxDone,        \* cache.ctx is cancelled: by cache.cancel() or by the parent
    schedPc,        \* where startCleanup is
    cleanNow,       \* clean's local now.Unix()
    swept,          \* the keys the running clean has deleted from items
    pc,             \* where each caller is
    call,           \* each caller's current call: op, key, val, lifespan, clock reading
    result,         \* what each caller's call returns
    ops,            \* calls started so far
    budget,         \* calls the callers may start in this run
    basic,          \* the linear-scan variant's item store, driven alongside
    files,          \* processFiles: the []FileInfo it is given
    ch,             \* processFiles: the channel's buffer, of file names
    chCap,          \* the channel's capacity: 0 for make(chan string)
    chClosed,       \* close(ch) was called
    prodPc,         \* where the producer goroutine is
    sent,           \* the files the producer has sent
    wpc,            \* where each worker goroutine is
    wname,          \* each worker's fileName
    winfo,          \* each worker's fileInfo
    delivered,      \* history: how often each file's name was received
    wg,             \* the WaitGroup's counter
    mainPc,         \* where processFiles itself is
    lastSet,        \* history: per key, the last Set and the Sets since the last Sweep
    shutdowns       \* history: Shutdown calls that returned

vars == <<now, items, itemsNil, expirations, expiryMap, writer, readers,
          ctxDone, schedPc, cleanNow, swept, pc, call, result, ops, budget,
          basic, files, ch, chCap, chClosed, prodPc, sent, wpc, wname, winfo,
          delivered, wg, mainPc,
          lastSet,
          shutdowns>>

cacheVars == <<items, itemsNil, expirations, expiryMap>>
lockVars == <<writer, readers>>
schedVars == <<schedPc, cleanNow, swept>>
\* what lies outside MyStateCache and its callers
chanVars == <<files, ch, chCap, chClosed, prodPc, sent, wpc, wname, winfo,
              delivered, wg, mainPc>>
outside == <<basic, chanVars>>
callVars == <<pc, call, result, ops, budget, outside>>
histVars == <<lastSet, shutdowns>>

\* ------------------------------------------------------------ conversions
\* Go's integer division truncates toward zero.
GoDiv(a, b) == IF a >= 0 THEN a \div b ELSE 0 - ((0 - a) \div b)

\* time.Now().Unix()
Unix(t) == t \div Res

\* int64(lifespan.Seconds())
Seconds(d) == GoDiv(d, Res)

EmptyMap == [k \in {} |-> 0]

\* ------------------------------------------------------- expirationQueue
\* A heap state h is [q |-> backing array of keys, e |-> the entry objects].
Len0(h) == Len(h.q)

Less(h, i, j) ==
    h.e[h.q[i + 1]].unixExpiryTime < h.e[h.q[j + 1]].unixExpiryTime

Swap(h, i, j) ==
    LET ki == h.q[i + 1]
        kj == h.q[j + 1]
        e1 == [h.e EXCEPT ![kj].index = i]
    IN  [q |-> [h.q EXCEPT ![i + 1] = kj, ![j + 1] = ki],
         e |-> [e1 EXCEPT ![ki].index = j]]

qPush(h, k) ==
    [q |-> Append(h.q, k), e |-> [h.e EXCEPT ![k].index = Len(h.q)]]

qPop(h) ==
    LET n == Len(h.q)
        k == h.q[n]
    IN  [q |-> SubSeq(h.q, 1, n - 1), e |-> [h.e EXCEPT ![k].index = 0 - 1]]

\* ------------------------------------------------------- container/heap
RECURSIVE up(_, _)
up(h, j) ==
    LET i == GoDiv(j - 1, 2)
    IN  IF i = j \/ ~Less(h, j, i) THEN h ELSE up(Swap(h, i, j), i)

RECURSIVE downLoop(_, _, _)
downLoop(h, i, n) ==
    LET j1 == 2 * i + 1
        j2 == j1 + 1
        j == IF j2 < n /\ Less(h, j2, j1) THEN j2 ELSE j1
    IN  IF j1 >= n \/ j1 < 0 THEN [h |-> h, i |-> i]
        ELSE IF ~Less(h, j, i) THEN [h |-> h, i |-> i]
        ELSE downLoop(Swap(h, i, j), j, n)

down(h, i0, n) ==
    LET r == downLoop(h, i0, n) IN [h |-> r.h, moved |-> r.i > i0]

\* heap.Fix without the up half: an entry whose expiry got smaller stays put
heapFixDownOnly(h, i) ==
    down(h, i, Len0(h)).h

heapFix(h, i) ==
    LET d == down(h, i, Len0(h)) IN IF ~d.moved THEN up(d.h, i) ELSE d.h

heapPush(h, k) ==
    LET h1 == qPush(h, k) IN up(h1, Len0(h1) - 1)

heapPop(h) ==
    LET n == Len0(h) - 1 IN qPop(down(Swap(h, 0, n), 0, n).h)

\* ------------------------------------------------------------ the errors
ErrNil == "cannot cache state due to nil value"
ErrNotFound == "state item not found"
ErrExpired == "state item was found as expired"
Ok == "nil error"
Panic == "panic: assignment to entry in nil map"
None == "nil"

\* what a call returns: (*MyState, error), the *MyState nil for Set
Ret(state, err) == [state |-> state, err |-> err]
NoResult == Ret(NilState, None)

NoCall == [op |-> "none", key |-> "a", val |-> NilState, life |-> 0, at |-> 0]
NoHist == [valid |-> FALSE, val |-> NilState, at |-> 0, life |-> 0, run |-> 0]

\* ------------------------------------------------------------------ Init
NWorkers == 3                  \* for w := 0; w < 3; w++
Workers == 0..(NWorkers - 1)
NoName == <<>>                 \* no file name received yet
NoFile == [name |-> NoName, size |-> 0]

\* processFiles has not been called
ChanIdle ==
    /\ files = <<>>
    /\ ch = <<>>
    /\ chCap = 0
    /\ chClosed = FALSE
    /\ prodPc = "idle"
    /\ sent = 0
    /\ wpc = [w \in Workers |-> "idle"]
    /\ wname = [w \in Workers |-> NoName]
    /\ winfo = [w \in Workers |-> NoFile]
    /\ delivered = <<>>
    /\ wg = 0
    /\ mainPc = "idle"

\* the cache NewMyStateCache returns, its cleanup goroutine started
CacheStart ==
    /\ now = 0
    /\ items = EmptyMap
    /\ itemsNil = FALSE
    /\ expirations = <<>>
    /\ expiryMap = EmptyMap
    /\ writer = NoOne
    /\ readers = {}
    /\ ctxDone = FALSE
    /\ schedPc = "select"
    /\ cleanNow = 0
    /\ swept = {}
    /\ pc = [p \in Procs |-> "idle"]
    /\ call = [p \in Procs |-> NoCall]
    /\ result = [p \in Procs |-> NoResult]
    /\ ops = 0
    /\ lastSet = [k \in Keys |-> NoHist]
    /\ shutdowns = 0
    /\ basic = EmptyMap

\* the cache program: processFiles is not part of it
Start == CacheStart /\ ChanIdle

Init == Start /\ budget = MaxOps

\* ------------------------------------------------------------------- Set
\* SetNil with the nil test after a reset of the queue: the rejected call
\* has already dropped every expiry node
SetNilReset(p) ==
    /\ pc[p] = "idle"
    /\ ops < budget
    /\ ops' = ops + 1
    /\ call' = [call EXCEPT ![p] = [NoCall EXCEPT !.op = "Set", !.val = NilState]]
    /\ pc' = [pc EXCEPT ![p] = "set_ret"]
    /\ result' = [result EXCEPT ![p] = Ret(NilState, ErrNil)]
    /\ expirations' = <<>>
    /\ UNCHANGED <<now, items, itemsNil, expiryMap, lockVars, ctxDone, schedVars,
                   budget, outside, histVars>>

\* Set called with state == nil: the error, before the lock is taken
SetNil(p) ==
    /\ pc[p] = "idle"
    /\ ops < budget
    /\ ops' = ops + 1
    /\ call' = [call EXCEPT ![p] = [NoCall EXCEPT !.op = "Set", !.val = NilState]]
    /\ pc' = [pc EXCEPT ![p] = "set_ret"]
    /\ result' = [result EXCEPT ![p] = Ret(NilState, ErrNil)]
    /\ UNCHANGED <<now, cacheVars, lockVars, ctxDone, schedVars, budget, outside, histVars>>

\* expiry := cachedAt + int64(lifespan.Seconds())
Expiry(at, life) == at + Seconds(life)

\* SetIndex without `oldExpiry.unixExpiryTime = expiry`: the entry keeps its
\* old expiry
SetIndexStale(q, e, k, expiry) ==
    IF k \in DOMAIN e
    THEN heapFix([q |-> q, e |-> e], e[k].index)
    ELSE LET e1 == [x \in DOMAIN e \cup {k} |->
                      IF x = k THEN [unixExpiryTime |-> expiry, index |-> 0]
                      ELSE e[x]]
         IN  heapPush([q |-> q, e |-> e1], k)

\* the expiry-entry half of Set: update in place and Fix, or create and Push
SetIndex(q, e, k, expiry) ==
    IF k \in DOMAIN e
    THEN LET e1 == [e EXCEPT ![k].unixExpiryTime = expiry]
         IN  heapFix([q |-> q, e |-> e1], e1[k].index)
    ELSE LET e1 == [x \in DOMAIN e \cup {k} |->
                      IF x = k THEN [unixExpiryTime |-> expiry, index |-> 0]
                      ELSE e[x]]
         IN  heapPush([q |-> q, e |-> e1], k)

\* Set with a non-nil state: cache.Lock(), the clock reading and the
\* expiry-entry half
SetBegin(p) ==
    /\ pc[p] = "idle"
    /\ ops < budget
    /\ ops' = ops + 1
    /\ writer = NoOne /\ readers = {}
    /\ writer' = p
    /\ \E k \in Keys, l \in Lifespans :
         LET v == ops + 1
             h == SetIndex(expirations, expiryMap, k, Expiry(Unix(now), l))
         IN  /\ call' = [call EXCEPT ![p] =
                    [op |-> "Set", key |-> k, val |-> v, life |-> l, at |-> now]]
             /\ expirations' = h.q
             /\ expiryMap' = h.e
    /\ pc' = [pc EXCEPT ![p] = "set_store"]
    /\ UNCHANGED <<now, items, itemsNil, readers, ctxDone, schedVars, result,
                   budget, outside, histVars>>

\* StoreItem that never shortens a life: a re-Set keeps the later expiresAt
StoreItemKeepLonger(m, k, v, at, expiry) ==
    [x \in DOMAIN m \cup {k} |->
        IF x = k
        THEN [stateObject |-> v, cachedAt |-> at,
              expiresAt |-> IF k \in DOMAIN m /\ m[k].expiresAt > expiry
                            THEN m[k].expiresAt ELSE expiry]
        ELSE m[x]]

\* cache.items[state.Id] = &cachedItem{...}
StoreItem(m, k, v, at, expiry) ==
    [x \in DOMAIN m \cup {k} |->
        IF x = k THEN [stateObject |-> v, cachedAt |-> at, expiresAt |-> expiry]
        ELSE m[x]]

\* the item half of Set and the deferred Unlock; the write to a nil map panics
SetStore(p) ==
    /\ pc[p] = "set_store"
    /\ LET c == call[p]
           cachedAt == Unix(c.at)
       IN  IF itemsNil
           THEN /\ result' = [result EXCEPT ![p] = Ret(NilState, Panic)]
                /\ UNCHANGED <<items, lastSet>>
           ELSE /\ items' = StoreItem(items, c.key, c.val, cachedAt,
                                      Expiry(cachedAt, c.life))
                /\ result' = [result EXCEPT ![p] = Ret(NilState, Ok)]
                /\ lastSet' = [lastSet EXCEPT ![c.key] =
                      [valid |-> TRUE, val |-> c.val, at |-> c.at, life |-> c.life,
                       run |-> IF @.run < 2 THEN @.run + 1 ELSE 2]]
    /\ writer' = NoOne
    /\ pc' = [pc EXCEPT ![p] = "set_ret"]
    /\ UNCHANGED <<now, itemsNil, expirations, expiryMap, readers, ctxDone,
                   schedVars, call, ops, budget, outside, shutdowns>>

\* Set has returned, or panicked: the caller goes on
SetReturn(p) ==
    /\ pc[p] = "set_ret"
    /\ pc' = [pc EXCEPT ![p] = "idle"]
    /\ call' = [call EXCEPT ![p] = NoCall]
    /\ result' = [result EXCEPT ![p] = NoResult]
    /\ UNCHANGED <<now, cacheVars, lockVars, ctxDone, schedVars, ops, budget, outside, histVars>>

\* ------------------------------------------------------------------- Get
\* GetResult with `<` for `<=`: an entry is still served at its expiry second
GetResultLate(m, k, t) ==
    IF k \notin DOMAIN m THEN Ret(NilState, ErrNotFound)
    ELSE IF m[k].expiresAt < Unix(t) THEN Ret(NilState, ErrExpired)
    ELSE Ret(m[k].stateObject, None)

\* GetResult without the lazy expiry test: whatever the item store holds
GetResultNoExpiry(m, k, t) ==
    IF k \notin DOMAIN m THEN Ret(NilState, ErrNotFound)
    ELSE Ret(m[k].stateObject, None)

\* what Get's body returns for key k when the clock reads t
GetResult(m, k, t) ==
    IF k \notin DOMAIN m THEN Ret(NilState, ErrNotFound)
    ELSE IF m[k].expiresAt <= Unix(t) THEN Ret(NilState, ErrExpired)
    ELSE Ret(m[k].stateObject, None)

\* GetRead without cache.RLock(): the lookup does not wait for a writer
GetReadNoLock(p) ==
    /\ pc[p] = "idle"
    /\ ops < budget
    /\ ops' = ops + 1
    /\ readers' = readers \cup {p}
    /\ \E k \in Keys :
          /\ call' = [call EXCEPT ![p] = [NoCall EXCEPT !.op = "Get", !.key = k, !.at = now]]
          /\ result' = [result EXCEPT ![p] = GetResult(items, k, now)]
    /\ pc' = [pc EXCEPT ![p] = "get_runlock"]
    /\ UNCHANGED <<now, cacheVars, writer, ctxDone, schedVars, budget, outside, histVars>>

\* cache.RLock(), the lookup and the clock reading
GetRead(p) ==
    /\ pc[p] = "idle"
    /\ ops < budget
    /\ ops' = ops + 1
    /\ writer = NoOne
    /\ readers' = readers \cup {p}
    /\ \E k \in Keys :
          /\ call' = [call EXCEPT ![p] = [NoCall EXCEPT !.op = "Get", !.key = k, !.at = now]]
          /\ result' = [result EXCEPT ![p] = GetResult(items, k, now)]
    /\ pc' = [pc EXCEPT ![p] = "get_runlock"]
    /\ UNCHANGED <<now, cacheVars, writer, ctxDone, schedVars, budget, outside, histVars>>

\* the deferred cache.RUnlock() and the return
GetRUnlock(p) ==
    /\ pc[p] = "get_runlock"
    /\ readers' = readers \ {p}
    /\ pc' = [pc EXCEPT ![p] = "idle"]
    /\ call' = [call EXCEPT ![p] = NoCall]
    /\ result' = [result EXCEPT ![p] = NoResult]
    /\ UNCHANGED <<now, cacheVars, writer, ctxDone, schedVars, ops, budget, outside, histVars>>

\* -------------------------------------------------------------- Shutdown
\* cache.RLock(): the shared lock
ShRLock(p) ==
    /\ pc[p] = "idle"
    /\ ops < budget
    /\ ops' = ops + 1
    /\ writer = NoOne
    /\ readers' = readers \cup {p}
    /\ call' = [call EXCEPT ![p] = [NoCall EXCEPT !.op = "Shutdown"]]
    /\ pc' = [pc EXCEPT ![p] = "sh_items"]
    /\ lastSet' = [k \in Keys |-> NoHist]
    /\ UNCHANGED <<now, cacheVars, writer, ctxDone, schedVars, result, budget, outside,
                   shutdowns>>

\* cache.items = nil
ShItems(p) ==
    /\ pc[p] = "sh_items"
    /\ items' = EmptyMap
    /\ itemsNil' = TRUE
    /\ pc' = [pc EXCEPT ![p] = "sh_clear"]
    /\ UNCHANGED <<now, expirations, expiryMap, lockVars, ctxDone, schedVars,
                   call, result, ops, budget, outside, histVars>>

\* ShClear without the expiryMap line: the index keeps its entries
ShClearQueueOnly(p) ==
    /\ pc[p] = "sh_clear"
    /\ expirations' = <<>>
    /\ pc' = [pc EXCEPT ![p] = "sh_cancel"]
    /\ UNCHANGED <<now, items, itemsNil, expiryMap, lockVars, ctxDone, schedVars,
                   call, result, ops, budget, outside, histVars>>

\* cache.expirations = make(expirationQueue, 0)
\* cache.expiryMap = make(map[string]*itemExpiry)
ShClear(p) ==
    /\ pc[p] = "sh_clear"
    /\ expirations' = <<>>
    /\ expiryMap' = EmptyMap
    /\ pc' = [pc EXCEPT ![p] = "sh_cancel"]
    /\ UNCHANGED <<now, items, itemsNil, lockVars, ctxDone, schedVars,
                   call, result, ops, budget, outside, histVars>>

\* cache.cancel(): a second cancel changes nothing
ShCancel(p) ==
    /\ pc[p] = "sh_cancel"
    /\ ctxDone' = TRUE
    /\ pc' = [pc EXCEPT ![p] = "sh_runlock"]
    /\ UNCHANGED <<now, cacheVars, lockVars, schedVars, call, result, ops, budget, outside, histVars>>

\* the deferred cache.RUnlock() and the return
ShRUnlock(p) ==
    /\ pc[p] = "sh_runlock"
    /\ readers' = readers \ {p}
    /\ pc' = [pc EXCEPT ![p] = "idle"]
    /\ call' = [call EXCEPT ![p] = NoCall]
    /\ shutdowns' = IF shutdowns < 2 THEN shutdowns + 1 ELSE 2
    /\ UNCHANGED <<now, cacheVars, writer, ctxDone, schedVars, result, ops, budget, outside, lastSet>>

\* ---------------------------------------------------------- startCleanup
\* select takes case <-ticker.C: a tick is there (the ticker's period is
\* left open, so a tick may be ready at any wait)
SchedTick ==
    /\ schedPc = "select"
    /\ schedPc' = "clean_lock"
    /\ UNCHANGED <<now, cacheVars, lockVars, ctxDone, cleanNow, swept, callVars,
                   histVars>>

\* SchedDone with `break` for `return`: the loop goes back to the select
SchedDoneBreak ==
    /\ schedPc = "select"
    /\ ctxDone
    /\ UNCHANGED vars

\* select takes case <-cache.ctx.Done()
SchedDone ==
    /\ schedPc = "select"
    /\ ctxDone
    /\ schedPc' = "stopped"
    /\ UNCHANGED <<now, cacheVars, lockVars, ctxDone, cleanNow, swept, callVars,
                   histVars>>

\* the loop of clean: st is [q, e, m, del], del the keys deleted from items
RECURSIVE cleanLoop(_, _)
cleanLoop(st, nowUnix) ==
    IF Len(st.q) = 0 THEN st
    ELSE LET earliest == st.q[1]
         IN  IF st.e[earliest].unixExpiryTime > nowUnix THEN st
             ELSE LET h == heapPop([q |-> st.q, e |-> st.e])
                  IN  cleanLoop(
                        [q |-> h.q, e |-> h.e,
                         m |-> [x \in DOMAIN st.m \ {earliest} |-> st.m[x]],
                         del |-> st.del \cup (DOMAIN st.m \cap {earliest})],
                        nowUnix)

\* cache.Lock() of clean is granted to the scheduler
CleanLock ==
    /\ schedPc = "clean_lock"
    /\ writer = NoOne /\ readers = {}
    /\ writer' = Sched
    /\ schedPc' = "clean_unlock"

\* cache.Lock(), the clock reading and the loop
Clean ==
    /\ CleanLock
    /\ cleanNow' = Unix(now)
    /\ LET st == cleanLoop([q |-> expirations, e |-> expiryMap, m |-> items, del |-> {}],
                           Unix(now))
       IN  /\ expirations' = st.q
           /\ expiryMap' = st.e
           /\ items' = st.m
           /\ swept' = st.del
    /\ lastSet' = [k \in Keys |-> [lastSet[k] EXCEPT !.run = 0]]
    /\ UNCHANGED <<now, itemsNil, readers, ctxDone, callVars, shutdowns>>

\* the deferred cache.Unlock()
CleanUnlock ==
    /\ schedPc = "clean_unlock"
    /\ writer' = NoOne
    /\ schedPc' = "select"
    /\ cleanNow' = 0
    /\ swept' = {}
    /\ UNCHANGED <<now, cacheVars, readers, ctxDone, callVars, histVars>>

\* ------------------------------------------------------------ environment
\* the caller of NewMyStateCache cancels the parent context, and
\* context.WithCancel passes it on to cache.ctx
ParentCancel ==
    /\ ~ctxDone
    /\ ctxDone' = TRUE
    /\ UNCHANGED <<now, cacheVars, lockVars, schedVars, callVars, histVars>>

AdvanceClock ==
    /\ now < MaxNow
    /\ now' = now + 1
    /\ UNCHANGED <<cacheVars, lockVars, ctxDone, schedVars, callVars, histVars>>

Next ==
    \/ \E p \in Procs : SetNil(p)
    \/ \E p \in Procs : SetBegin(p)
    \/ \E p \in Procs : SetStore(p)
    \/ \E p \in Procs : SetReturn(p)
    \/ \E p \in Procs : GetRead(p)
    \/ \E p \in Procs : GetRUnlock(p)
    \/ \E p \in Procs : ShRLock(p)
    \/ \E p \in Procs : ShItems(p)
    \/ \E p \in Procs : ShClear(p)
    \/ \E p \in Procs : ShCancel(p)
    \/ \E p \in Procs : ShRUnlock(p)
    \/ SchedTick
    \/ SchedDone
    \/ Clean
    \/ CleanUnlock
    \/ ParentCancel
    \/ AdvanceClock

Spec == Init /\ [][Next]_vars

\* a call under way takes its next step
CallStep(p) ==
    \/ SetStore(p) \/ SetReturn(p) \/ GetRUnlock(p)
    \/ ShItems(p) \/ ShClear(p) \/ ShCancel(p) \/ ShRUnlock(p)

\* The goroutines keep running: a call under way takes its next step, a
\* clean under way unlocks.  sync.RWMutex hands the lock to a waiting
\* Lock(), and select picks fairly among the cases that are ready, so
\* neither Clean nor the Done case is passed over for ever.  The only step
\* of Next that is a CleanLock step is Clean, so fairness of CleanLock is
\* fairness of Clean.
Fairness ==
    /\ \A p \in Procs : WF_vars(CallStep(p))
    /\ WF_vars(CleanUnlock)
    /\ SF_<<writer, schedPc>>(CleanLock)
    /\ SF_vars(SchedDone)

LiveInit == Start /\ budget = LiveOps

FairSpec == LiveInit /\ [][Next]_vars /\ Fairness

TypeOK ==
    /\ now \in 0..MaxNow
    /\ itemsNil \in BOOLEAN
    /\ DOMAIN items \subseteq Keys
    /\ DOMAIN expiryMap \subseteq Keys
    /\ \A i \in 1..Len(expirations) : expirations[i] \in DOMAIN expiryMap
    /\ writer \in Procs \cup {NoOne, Sched}
    /\ readers \subseteq Procs
    /\ schedPc \in {"select", "clean_lock", "clean_unlock", "stopped"}

\* ================================================================ claims
ShPcs == {"sh_items", "sh_clear", "sh_cancel", "sh_runlock"}

\* no Shutdown has begun
NoShutdown == ~itemsNil /\ \A p \in Procs : pc[p] \notin ShPcs

\* Get's two errors are one outcome to the caller: not found
NotFound(r) == r.state = NilState /\ r.err \in {ErrNotFound, ErrExpired}

Found(r, v) == r.state = v /\ r.err = None

\* the nodes of key k in the expiration queue
Nodes(k) == {i \in 1..Len(expirations) : expirations[i] = k}

\* ------------------------------------------------------------------- C1
\* C1, as claimed: after Set(k, v, lifespan) at time t, with no later Set of
\* k and no Shutdown, a Get(k) at query time q returns v when q is in
\* [t, t + lifespan) and not-found when q >= t + lifespan.
ExpiryCorrectness ==
    \A p \in Procs :
        (pc[p] = "get_runlock" /\ lastSet[call[p].key].valid) =>
            LET h == lastSet[call[p].key]
            IN  IF call[p].at < h.at + h.life
                THEN Found(result[p], h.val)
                ELSE NotFound(result[p])

\* what C1 as amended expects of a Get of a key last Set as h, at clock t:
\* the clock is read in whole seconds and the lifespan cut to whole seconds
Expected(h, t, r) ==
    IF Unix(t) < Unix(h.at) + Seconds(h.life) THEN Found(r, h.val) ELSE NotFound(r)

\* C1, amended: after Set(k, v, lifespan) at time t, with no later Set of k
\* and no Shutdown, a Get(k) at query time q returns v when
\* Unix(q) < Unix(t) + trunc(lifespan in seconds) and not-found otherwise,
\* whether or not a Sweep ran in between -- for the Gets that returned and
\* for every moment a Get could read; a lifespan under one second (zero and
\* negative ones too) makes k absent on the very next Get.
ExpiryCorrectnessSeconds ==
    /\ \A p \in Procs :
          (pc[p] = "get_runlock" /\ lastSet[call[p].key].valid) =>
              Expected(lastSet[call[p].key], call[p].at, result[p])
    /\ \A k \in Keys :
          (writer = NoOne /\ lastSet[k].valid) =>
              Expected(lastSet[k], now, GetResult(items, k, now))

\* a Get returned the value of the last Set of its key, in a later half second
ExpiryWitness ==
    \E p \in Procs :
        /\ pc[p] = "get_runlock"
        /\ lastSet[call[p].key].valid
        /\ call[p].at > lastSet[call[p].key].at
        /\ Found(result[p], lastSet[call[p].key].val)

\* ------------------------------------------------------------------- C2
\* C2: while no writer holds the lock and before Shutdown, the keys of the
\* item store, the keys of expiryMap and the keys in the expiration queue
\* are the same set, each key with exactly one queue entry.
KeySetConsistency ==
    (writer = NoOne /\ NoShutdown) =>
        /\ DOMAIN items = DOMAIN expiryMap
        /\ DOMAIN items = {expirations[i] : i \in 1..Len(expirations)}
        /\ \A k \in DOMAIN items : Cardinality(Nodes(k)) = 1

\* ------------------------------------------------------------------- C3
\* C3: after two Sets of key k with no Sweep or Shutdown between them, k has
\* exactly one item and exactly one queue node, both with the second Set's
\* value and the expiry of the second Set's time and lifespan.
IdempotentReinsertion ==
    \A k \in Keys :
        (writer = NoOne /\ NoShutdown /\ lastSet[k].valid /\ lastSet[k].run = 2) =>
            LET h == lastSet[k]
                expiry == Expiry(Unix(h.at), h.life)
            IN  /\ k \in DOMAIN items
                /\ items[k].stateObject = h.val
                /\ items[k].expiresAt = expiry
                /\ Cardinality(Nodes(k)) = 1
                /\ k \in DOMAIN expiryMap
                /\ expiryMap[k].unixExpiryTime = expiry

\* ------------------------------------------------------------------- C4
\* the cache as clean's loop takes it
CleanState == [q |-> expirations, e |-> expiryMap, m |-> items, del |-> {}]

\* C4: when a Sweep at time now has run (before Shutdown), no entry with
\* expiresAt <= now is left in the item store or in the queue, and a second
\* Sweep at the same time would change nothing.
SweepCompleteness ==
    (schedPc = "clean_unlock" /\ ~itemsNil) =>
        /\ \A k \in DOMAIN items : items[k].expiresAt > cleanNow
        /\ \A i \in 1..Len(expirations) :
              expiryMap[expirations[i]].unixExpiryTime > cleanNow
        /\ cleanLoop(CleanState, cleanNow) = CleanState

\* ------------------------------------------------------------------- C5
\* C5: every key a Sweep at time now deletes from the item store had
\* expiresAt <= now there; an entry whose expiry is still ahead, one
\* refreshed by a later Set included, is never deleted.
SweepRemovesOnlyExpired ==
    [][(schedPc = "clean_lock" /\ schedPc' = "clean_unlock") =>
          /\ swept' = DOMAIN items \ DOMAIN items'
          /\ \A k \in DOMAIN items \ DOMAIN items' : items[k].expiresAt <= cleanNow'
          /\ \A k \in DOMAIN items' : items'[k] = items[k]]_vars

\* a Sweep deleted an expired key and left a live one that was Set twice
SweepWitness ==
    /\ schedPc = "clean_unlock"
    /\ swept # {}
    /\ \E k \in DOMAIN items : items[k].expiresAt > cleanNow /\ items[k].stateObject > 1

\* ------------------------------------------------------------------- C6
\* C6: every Set with a non-nil value and every Get ends in success,
\* InvalidInput or NotFound, also after Shutdown; none ends in a panic, and
\* a Set that did not succeed leaves no expiry entry it added behind.
NoOtherFailure ==
    \A p \in Procs :
        /\ result[p].err \in {None, Ok, ErrNil, ErrNotFound, ErrExpired}
        /\ (pc[p] = "set_ret" /\ call[p].val # NilState /\ result[p].err # Ok) =>
              call[p].key \notin DOMAIN expiryMap

\* ------------------------------------------------------------------- C7
\* C7: Shutdown is never writing the item store, the queue or the index
\* while a Get, or another Shutdown, is inside its own locked section.
ShutdownExclusive ==
    \A p \in Procs :
        pc[p] \in {"sh_items", "sh_clear"} =>
            \A o \in Procs \ {p} : pc[o] \notin ShPcs \cup {"get_runlock"}

\* ------------------------------------------------------------------- C8
\* C8: when a Shutdown call is about to return -- the first or a later one --
\* the item store, the queue and the index hold nothing, every Get returns
\* not-found, the context is cancelled, and the call did not panic; on a
\* later call the cancellation finds the context already cancelled.  No
\* step of Shutdown after its RLock waits for anything.
ShutdownIdempotent ==
    /\ \A p \in Procs :
          /\ pc[p] = "sh_runlock" =>
                /\ itemsNil /\ DOMAIN items = {}
                /\ expirations = <<>>
                /\ DOMAIN expiryMap = {}
                /\ ctxDone
                /\ \A k \in Keys : NotFound(GetResult(items, k, now))
                /\ result[p].err # Panic
                /\ ENABLED ShRUnlock(p)
          /\ pc[p] = "sh_items" => ENABLED ShItems(p)
          /\ pc[p] = "sh_clear" => ENABLED ShClear(p)
          /\ pc[p] = "sh_cancel" => ENABLED ShCancel(p)
          /\ (pc[p] \in {"sh_clear", "sh_cancel"} /\ shutdowns >= 1) => ctxDone
    /\ shutdowns >= 1 =>
          /\ itemsNil /\ ctxDone
          /\ writer = NoOne => \A k \in Keys : NotFound(GetResult(items, k, now))

\* a second Shutdown is about to return, after a first one returned
ShutdownTwice ==
    \E p \in Procs : pc[p] = "sh_runlock" /\ shutdowns >= 1

\* ------------------------------------------------------------------- C9
\* C9: once the context is cancelled, the scheduler's select takes the
\* cancellation branch: it never goes from its wait to a Sweep.
CancelPriority ==
    [][(ctxDone /\ schedPc = "select") => schedPc' # "clean_lock"]_vars

\* ------------------------------------------------------------------ C10
\* C10: once Shutdown is called or the context is cancelled, the scheduler
\* reaches Stopped, and once Stopped it stays there and runs no Sweep.
SchedulerStops ==
    /\ (ctxDone \/ \E p \in Procs : pc[p] \in ShPcs) ~> (schedPc = "stopped")
    /\ [][schedPc = "stopped" => schedPc' = "stopped"]_vars

\* the scheduler stopped after a Shutdown returned
SchedulerStopped ==
    schedPc = "stopped" /\ shutdowns >= 1

\* ------------------------------------------------------------------ C11
\* C11: a Set with a nil value returns the error and leaves the item store,
\* the expiration queue and the expiry index as they were (and the lock
\* too: it is never taken), in whatever state it is called.
NilSetRejected ==
    [][\A p \in Procs :
          (pc[p] = "idle" /\ pc'[p] = "set_ret" /\ call'[p].val = NilState) =>
              /\ result'[p] = Ret(NilState, ErrNil)
              /\ items' = items /\ itemsNil' = itemsNil
              /\ expirations' = expirations
              /\ expiryMap' = expiryMap
              /\ writer' = writer /\ readers' = readers]_vars

\* a nil Set was rejected while the cache held an item and a writer was at work
NilSetWitness ==
    \E p \in Procs :
        /\ pc[p] = "set_ret" /\ call[p].val = NilState
        /\ result[p].err = ErrNil
        /\ DOMAIN items # {} /\ expirations # <<>>
        /\ writer # NoOne

\* ------------------------------------------------------------------ C12
\* the Sets and the Sweep inside their locked sections
InsideWrite ==
    {p \in Procs : pc[p] = "set_store"}
        \cup (IF schedPc = "clean_unlock" THEN {Sched} ELSE {})

\* the Gets inside their locked sections
InsideGet == {p \in Procs : pc[p] = "get_runlock"}

\* C12: at most one Set or Sweep is inside its locked section, it is the
\* holder of the exclusive lock, and no Get is inside with it; so no Get is
\* inside while a Set stands between its expiry-entry half and its item
\* half, and what a Get inside holds is what the item store of completed
\* Sets gives at its clock reading (Shutdown, which shares the read lock
\* with the Gets, set aside).
MutualExclusion ==
    /\ Cardinality(InsideWrite) <= 1
    /\ InsideWrite # {} => (writer \in InsideWrite /\ InsideGet = {})
    /\ \A p \in InsideGet :
          /\ \A o \in Procs : pc[o] # "set_store"
          /\ schedPc # "clean_unlock"
          /\ NoShutdown => result[p] = GetResult(items, call[p].key, call[p].at)

\* two Gets are inside together, after a Set
TwoGetsInside ==
    /\ InsideGet = Procs
    /\ DOMAIN items # {}

\* ------------------------------------------------------------------ C13
\* C13: when the Sets of all the keys have returned (no Set under way, no
\* Shutdown), under whatever interleaving of the callers and the Sweeps,
\* every key whose own Set has not yet expired is in the item store with
\* the value and expiry of that Set, has exactly one node in the expiration
\* queue, and a Get of it returns its value.
NoLostUpdate ==
    (writer = NoOne /\ NoShutdown /\ \A k \in Keys : lastSet[k].valid) =>
        \A k \in Keys :
            LET h == lastSet[k]
                expiry == Expiry(Unix(h.at), h.life)
            IN  Unix(now) < expiry =>
                    /\ k \in DOMAIN items
                    /\ items[k].stateObject = h.val
                    /\ items[k].expiresAt = expiry
                    /\ Cardinality(Nodes(k)) = 1
                    /\ Found(GetResult(items, k, now), h.val)

\* ------------------------------------------------------------------ C14
\* C14: when a Set of key k completes after an earlier Set of k has
\* completed (no Shutdown since), the item store entry of k carries this
\* later Set's value and expiry, and the queue holds an entry for k that
\* carries this expiry too -- also when the later lifespan is the shorter.
LastWriterWins ==
    [][\A p \in Procs :
          (pc[p] = "set_store" /\ pc'[p] = "set_ret" /\ ~itemsNil
              /\ lastSet[call[p].key].valid) =>
              LET k == call[p].key
                  expiry == Expiry(Unix(call[p].at), call[p].life)
              IN  /\ k \in DOMAIN items'
                  /\ items'[k].stateObject = call[p].val
                  /\ items'[k].expiresAt = expiry
                  /\ \E i \in 1..Len(expirations') :
                        /\ expirations'[i] = k
                        /\ expiryMap'[k].unixExpiryTime = expiry]_vars

\* ============================================ one caller, one call at a time
\* The same cache driven by a single goroutine that calls Set and clean one
\* after the other, over more keys and more lifespans: every call runs from
\* its Lock to its Unlock in one step.
SeqKeys == {"a", "b", "c", "d"}
SeqLifespans == {0, Res, 2 * Res, 3 * Res}
SeqVals == {1}

seqFixed == <<itemsNil, lockVars, ctxDone, schedVars, callVars, histVars>>

SeqInit == Start /\ budget = 0

\* Set(state, lifespan), lines 81-105 in one piece
SeqSet ==
    /\ \E k \in SeqKeys, v \in SeqVals, l \in SeqLifespans :
         LET cachedAt == Unix(now)
             expiry == Expiry(cachedAt, l)
             h == SetIndex(expirations, expiryMap, k, expiry)
         IN  /\ expirations' = h.q
             /\ expiryMap' = h.e
             /\ items' = StoreItem(items, k, v, cachedAt, expiry)
    /\ UNCHANGED <<now, seqFixed>>

\* clean(), lines 150-164 in one piece
SeqSweep ==
    /\ LET st == cleanLoop(CleanState, Unix(now))
       IN  /\ expirations' = st.q
           /\ expiryMap' = st.e
           /\ items' = st.m
    /\ UNCHANGED <<now, seqFixed>>

SeqTick ==
    /\ now < MaxNow
    /\ now' = now + 1
    /\ UNCHANGED <<items, expirations, expiryMap, seqFixed>>

SeqNext == SeqSet \/ SeqSweep \/ SeqTick

SeqSpec == SeqInit /\ [][SeqNext]_vars

\* ------------------------------------------------------------------ C15
\* the expiry the queue orders position i (from 0) by
ExpiryAt(i) == expiryMap[expirations[i + 1]].unixExpiryTime

\* C15: after any sequence of Sets (a push, or an expiry made larger or
\* smaller and then Fix) and Sweeps (pops of the minimum), every entry of
\* the expiration queue but the root has an expiry at or above its
\* parent's, and position 0 holds the smallest expiry.
HeapOrder ==
    /\ \A i \in 1..(Len(expirations) - 1) :
          ExpiryAt(i) >= ExpiryAt((i - 1) \div 2)
    /\ \A i \in 0..(Len(expirations) - 1) : ExpiryAt(0) <= ExpiryAt(i)

\* a queue of four entries, three levels deep, whose array is not sorted
HeapOrderWitness ==
    /\ Len(expirations) = 4
    /\ ExpiryAt(2) < ExpiryAt(1)
    /\ ExpiryAt(3) > ExpiryAt(2)
    /\ ExpiryAt(0) < ExpiryAt(2)

\* ------------------------------------------------------------------ C16
\* every entry in the queue knows its position, every entry out of it has -1
HeapIndexOK ==
    /\ \A i \in 1..Len(expirations) : expiryMap[expirations[i]].index = i - 1
    /\ \A k \in DOMAIN expiryMap : Nodes(k) = {} => expiryMap[k].index = 0 - 1

\* C16: whenever a mutating operation has returned, the entry at position i
\* of the queue's array has index i and every popped entry has index -1; and
\* when Set finds an expiry entry for its key and calls Fix, the index it
\* passes is the position of that entry in the queue.
HeapIndexInvariant ==
    [][/\ HeapIndexOK'
       /\ \A p \in Procs :
             (pc[p] = "idle" /\ pc'[p] = "set_store"
                 /\ call'[p].key \in DOMAIN expiryMap) =>
                 LET k == call'[p].key
                     i == expiryMap[k].index
                 IN  /\ i \in 0..(Len(expirations) - 1)
                     /\ expirations[i + 1] = k]_vars

\* ------------------------------------------------------------------ C17
\* C17: before Shutdown and outside a writer's locked section, every entry
\* of the expiration queue has an item in the item store under its key, and
\* the item's expiresAt is the expiry the queue orders the entry by.
StoreQueueAgree ==
    (writer = NoOne /\ NoShutdown) =>
        \A i \in 1..Len(expirations) :
            LET k == expirations[i]
            IN  /\ k \in DOMAIN items
                /\ items[k].expiresAt = expiryMap[k].unixExpiryTime

\* two keys are queued, one of them Set twice in a row with a new expiry
StoreQueueWitness ==
    /\ writer = NoOne /\ NoShutdown
    /\ Len(expirations) = 2
    /\ \E k \in Keys :
          /\ lastSet[k].run = 2
          /\ Nodes(k) # {}
          /\ items[k].expiresAt > 0

\* ==================================== the two variants, driven side by side
\* The linear-scan variant keeps one map of entries {value, cachedAt,
\* expiresAt}, in epoch seconds; its sweep walks the whole map.  Its code
\* is not in the repository snapshot: it is taken from the specification.
BasicSet(m, k, v, at, life) ==
    [x \in DOMAIN m \cup {k} |->
        IF x = k THEN [value |-> v, cachedAt |-> at, expiresAt |-> at + life]
        ELSE m[x]]

BasicSweep(m, t) ==
    [x \in {k \in DOMAIN m : m[k].expiresAt > t} |-> m[x]]

\* the value, or NilState for absent
BasicGet(m, k, t) ==
    IF k \in DOMAIN m /\ m[k].expiresAt > t THEN m[k].value ELSE NilState

PairVals == {1, 2}
PairLifespans == Lifespans \cup {2 * Res}

pairFixed == <<itemsNil, lockVars, ctxDone, schedVars, pc, call, result, ops,
               budget, chanVars, histVars>>

PairInit == Start /\ budget = 0

\* the same Set(state, lifespan) on both caches, at one clock reading
PairSet ==
    /\ \E k \in Keys, v \in PairVals, l \in PairLifespans :
         LET cachedAt == Unix(now)
             expiry == Expiry(cachedAt, l)
             h == SetIndex(expirations, expiryMap, k, expiry)
         IN  /\ expirations' = h.q
             /\ expiryMap' = h.e
             /\ items' = StoreItem(items, k, v, cachedAt, expiry)
             /\ basic' = BasicSet(basic, k, v, cachedAt, Seconds(l))
    /\ UNCHANGED <<now, pairFixed>>

\* a sweep of both caches, at one clock reading
PairSweep ==
    /\ LET st == cleanLoop(CleanState, Unix(now))
       IN  /\ expirations' = st.q
           /\ expiryMap' = st.e
           /\ items' = st.m
    /\ basic' = BasicSweep(basic, Unix(now))
    /\ UNCHANGED <<now, pairFixed>>

PairTick ==
    /\ now < MaxNow
    /\ now' = now + 1
    /\ UNCHANGED <<items, expirations, expiryMap, basic, pairFixed>>

PairNext == PairSet \/ PairSweep \/ PairTick

PairSpec == PairInit /\ [][PairNext]_vars

NFiles == 6                    \* generateLargeFileList(200), cut down
ChanCap == 5                   \* make(chan string, 5)
MaxSize == 3                   \* rand.Intn(3) + 1

Digits == <<"0", "1", "2", "3", "4", "5", "6", "7", "8", "9">>

\* the decimal digits fmt.Sprintf("%d", n) prints, n >= 0
RECURSIVE Itoa(_)
Itoa(n) ==
    IF n < 10 THEN <<Digits[n + 1]>>
    ELSE Itoa(n \div 10) \o <<Digits[(n % 10) + 1]>>

\* fmt.Sprintf("file%d.txt", n), as its characters
FileName(n) == <<"f", "i", "l", "e">> \o Itoa(n) \o <<".", "t", "x", "t">>

\* strings.Index(s, sub): where sub first starts in s, from 0, or -1
StrIndex(s, sub) ==
    LET hits == {i \in 0..(Len(s) - Len(sub)) : SubSeq(s, i + 1, i + Len(sub)) = sub}
    IN  IF hits = {} THEN 0 - 1
        ELSE CHOOSE i \in hits : \A j \in hits : i <= j

\* the sizes rand.Intn(3) + 1 may give the files: all alike, or going round
SizeLists ==
    {[i \in 1..NFiles |-> c] : c \in 1..MaxSize}
        \cup {[i \in 1..NFiles |-> ((i + r) % MaxSize) + 1] : r \in 0..(MaxSize - 1)}

generateLargeFileList(count, sizes) ==
    [i \in 1..count |-> [name |-> FileName(i), size |-> sizes[i]]]

cacheSide == <<now, cacheVars, lockVars, ctxDone, schedVars, pc, call, result,
               ops, budget, basic, histVars>>

\* processFiles(files, ch) has started its three workers and its producer
\* and waits; run() calls it with make(chan string) and make(chan string, 5)
ChanInit ==
    /\ CacheStart
    /\ budget = 0
    /\ \E sizes \in SizeLists : files = generateLargeFileList(NFiles, sizes)
    /\ chCap \in {0, ChanCap}
    /\ ch = <<>>
    /\ chClosed = FALSE
    /\ prodPc = "send"
    /\ sent = 0
    /\ wpc = [w \in Workers |-> "recv"]
    /\ wname = [w \in Workers |-> NoName]
    /\ winfo = [w \in Workers |-> NoFile]
    /\ delivered = [i \in 1..NFiles |-> 0]
    /\ wg = NWorkers
    /\ mainPc = "wait"

\* the file a name was generated for
FileOf(name) == CHOOSE i \in 1..Len(files) : files[i].name = name

\* a worker's loop body up to the Sleep, for the name it received:
\* fileIndex := strings.Index(fileName, "file"); fileInfo := files[fileIndex]
Receive(w, name) ==
    LET fileIndex == StrIndex(name, <<"f", "i", "l", "e">>)
    IN  /\ wname' = [wname EXCEPT ![w] = name]
        /\ delivered' = [delivered EXCEPT ![FileOf(name)] = @ + 1]
        /\ IF fileIndex + 1 \in 1..Len(files)
           THEN /\ winfo' = [winfo EXCEPT ![w] = files[fileIndex + 1]]
                /\ wpc' = [wpc EXCEPT ![w] = "work"]
           ELSE /\ winfo' = winfo
                /\ wpc' = [wpc EXCEPT ![w] = "panic"]

\* ch <- file.name on a channel with a buffer: room in the buffer, or the
\* channel is closed and the send panics
ProdSend ==
    /\ prodPc = "send"
    /\ sent < Len(files)
    /\ chClosed \/ Len(ch) < chCap
    /\ IF chClosed
       THEN /\ prodPc' = "panic"
            /\ UNCHANGED <<ch, sent>>
       ELSE /\ ch' = Append(ch, files[sent + 1].name)
            /\ sent' = sent + 1
            /\ prodPc' = prodPc
    /\ UNCHANGED <<files, chCap, chClosed, wpc, wname, winfo, delivered, wg, mainPc,
                   cacheSide>>

\* ch <- file.name on an unbuffered channel: the send and a worker's
\* receive happen together
Handoff(w) ==
    /\ prodPc = "send"
    /\ sent < Len(files)
    /\ chCap = 0 /\ ~chClosed
    /\ wpc[w] = "recv"
    /\ Receive(w, files[sent + 1].name)
    /\ sent' = sent + 1
    /\ UNCHANGED <<files, ch, chCap, chClosed, prodPc, wg, mainPc, cacheSide>>

\* ProdClose one file early: close(ch) inside the loop, before the last send
ProdCloseEarly ==
    /\ prodPc = "send"
    /\ sent = Len(files) - 1
    /\ ~chClosed
    /\ chClosed' = TRUE
    /\ UNCHANGED <<files, ch, chCap, prodPc, sent, wpc, wname, winfo, delivered, wg,
                   mainPc, cacheSide>>

\* the loop over files is over: close(ch), and the producer goroutine ends
ProdClose ==
    /\ prodPc = "send"
    /\ sent = Len(files)
    /\ chClosed' = TRUE
    /\ prodPc' = "done"
    /\ UNCHANGED <<files, ch, chCap, sent, wpc, wname, winfo, delivered, wg, mainPc,
                   cacheSide>>

\* for fileName := range ch takes a name from the buffer
Recv(w) ==
    /\ wpc[w] = "recv"
    /\ ch # <<>>
    /\ Receive(w, Head(ch))
    /\ ch' = Tail(ch)
    /\ UNCHANGED <<files, chCap, chClosed, prodPc, sent, wg, mainPc, cacheSide>>

\* the channel is closed and drained: the range loop ends, wg.Done() runs
RecvClosed(w) ==
    /\ wpc[w] = "recv"
    /\ ch = <<>> /\ chClosed
    /\ wpc' = [wpc EXCEPT ![w] = "done"]
    /\ wg' = wg - 1
    /\ UNCHANGED <<files, ch, chCap, chClosed, prodPc, sent, wname, winfo, delivered,
                   mainPc, cacheSide>>

\* the Sleep and the "completed" line: back to the range
Work(w) ==
    /\ wpc[w] = "work"
    /\ wpc' = [wpc EXCEPT ![w] = "recv"]
    /\ wname' = [wname EXCEPT ![w] = NoName]
    /\ winfo' = [winfo EXCEPT ![w] = NoFile]
    /\ UNCHANGED <<files, ch, chCap, chClosed, prodPc, sent, delivered, wg, mainPc,
                   cacheSide>>

\* wg.Wait() returns and processFiles with it
MainReturn ==
    /\ mainPc = "wait"
    /\ wg = 0
    /\ mainPc' = "returned"
    /\ UNCHANGED <<files, ch, chCap, chClosed, prodPc, sent, wpc, wname, winfo,
                   delivered, wg, cacheSide>>

WorkerStep(w) == Recv(w) \/ RecvClosed(w) \/ Work(w)

ChanNext ==
    \/ ProdSend
    \/ ProdClose
    \/ MainReturn
    \/ \E w \in Workers : Handoff(w)
    \/ \E w \in Workers : Recv(w)
    \/ \E w \in Workers : RecvClosed(w)
    \/ \E w \in Workers : Work(w)

ChanSpec == ChanInit /\ [][ChanNext]_vars

\* every goroutine that can take a step gets to take one
ChanFairness ==
    /\ WF_vars(ProdSend)
    /\ WF_vars(ProdClose)
    /\ WF_vars(MainReturn)
    /\ WF_vars(\E w \in Workers : Handoff(w))
    /\ \A w \in Workers : WF_vars(WorkerStep(w))

ChanFairSpec == ChanInit /\ [][ChanNext]_vars /\ ChanFairness

\* ------------------------------------------------------------------ C19
\* no name received twice, close only after the last send, no send on a
\* closed channel; at the return every name was received once, every worker
\* has left its loop and the channel is closed and empty
ChanSafe ==
    /\ \A i \in 1..Len(files) : delivered[i] <= 1
    /\ \A i \in 1..Len(files) : delivered[i] = 1 => i <= sent
    /\ chClosed => sent = Len(files)
    /\ prodPc # "panic"
    /\ \A w \in Workers : wpc[w] = "done" => (chClosed /\ ch = <<>>)
    /\ mainPc = "returned" =>
          /\ \A i \in 1..Len(files) : delivered[i] = 1
          /\ \A w \in Workers : wpc[w] = "done"
          /\ chClosed /\ ch = <<>> /\ prodPc = "done"

\* C19: with the unbuffered channel and with the one of capacity 5, every
\* file name sent is received by exactly one worker, the channel is closed
\* only after the last send and never sent on afterwards, every worker
\* leaves its loop after the close, and processFiles returns, whatever the
\* interleaving.
ExactlyOnceAndReturns ==
    /\ []ChanSafe
    /\ <>(mainPc = "returned")

\* processFiles returned from a run whose channel has a buffer
ChanReturned ==
    /\ mainPc = "returned"
    /\ chCap = ChanCap
    /\ \A i \in 1..Len(files) : delivered[i] = 1


\* ------------------------------------------------------------------ C20
\* C20: a worker that received a file name works with the record of that
\* very file: the name and size it holds are those of the file whose name
\* it took from the channel.
UsesOwnRecord ==
    \A w \in Workers :
        wpc[w] = "work" => winfo[w] = files[FileOf(wname[w])]

====
